---- MODULE Spec2Model ----
(***************************************************************************)
(* Order & entitlement engine of the bookstore backend.                    *)
(*                                                                         *)
(* The store is the relational database (books, users, orders,             *)
(* order_items, gifts).  POST /api/orders runs on a pooled connection      *)
(* inside one transaction; every awaited statement of the handler is one   *)
(* step, so two requests interleave statement by statement.  Uncommitted   *)
(* writes live in the connection's record and reach the tables at COMMIT.  *)
(*                                                                         *)
(* Money is kept in integers.  Catalog prices, fees and stored DECIMAL     *)
(* (10,2) columns are in cents; the handler's running amounts (a price     *)
(* multiplied by 0.35 or 0.55) are in hundredths of a cent, so that the    *)
(* rounding done by total.toFixed(2) and by the DECIMAL columns is a real  *)
(* conversion.  Time is a counter; order deadlines are now + days.         *)
(***************************************************************************)
EXTENDS Integers, Sequences, FiniteSets, TLC

(* ------------------------------ bounds -------------------------------- *)
\* ids the orders table may hand out (AUTO_INCREMENT is never reused)
MaxOrders == 2
\* last instant of the clock
MaxTime == 3
\* ids the gifts table may hand out
MaxGifts == 4

(* ------------------------- program constants -------------------------- *)
\* SQL NULL / JS null / undefined in an integer-valued field
NULL == -1
\* rent multipliers, in percent
RentPctDefault == 35
RentPctOther == 55
\* rental duration used when rental_duration is missing or not positive
DefaultRentalDays == 30
\* the rental duration that gets the cheaper multiplier
CheapTierDays == 30
\* shipping costs and COD fee, in cents
ShipStandard == 3000
ShipExpress == 7000
ShipPriority == 12000
CodFee == 1000
\* delivery days by shipping speed
EtaPriority == 1
EtaExpress == 3
EtaStandard == 5

(* ------------------------------ universe ------------------------------ *)
\* catalog
Books == {1, 2}
\* an account's email is identified with the account's id; every id of
\* AllUsers is also an email address somebody may type
AllUsers == {1, 2}
\* pooled connections
Conns == {1, 2}
\* catalog price (cents), stock and presence of uploaded content at start
InitPrice == [b \in Books |-> IF b = 1 THEN 9999 ELSE 40000]
InitStock == [b \in Books |-> IF b = 1 THEN 2 ELSE 1]
InitContent == [b \in Books |-> b # 1]

VARIABLES
    now,          \* the clock (new Date(), NOW())
    users,        \* ids of the registered accounts
    books,        \* books table: id -> [price, stock, content_url]
    orders,       \* orders table, committed rows
    order_items,  \* order_items table, committed rows
    gifts,        \* gifts table, committed rows
    nextOrderId,  \* AUTO_INCREMENT of orders
    nextGiftId,   \* AUTO_INCREMENT of gifts; also the source of claim tokens
    txn,          \* per connection: the order-creation request running on it
    resp,         \* per connection: the last response of POST /api/orders
    lastRead,     \* the last response of GET /:bookId/read
    everBought,   \* history: <<user, book>> that once had a completed buy order
    lastCall      \* the last response of the order, gift and admin endpoints

vars == <<now, users, books, orders, order_items, gifts, nextOrderId,
          nextGiftId, txn, resp, lastRead, everBought, lastCall>>

db == <<books, orders, order_items, gifts>>

(* ------------------------------ helpers ------------------------------- *)
RECURSIVE SumOver(_, _)
\* sum of f[x] for x in the finite set S
SumOver(S, f) ==
    IF S = {} THEN 0
    ELSE LET x == CHOOSE y \in S : TRUE IN f[x] + SumOver(S \ {x}, f)

\* Number(total.toFixed(2)) and the rounding of a DECIMAL(10,2) column:
\* hundredths of a cent -> cents, half up
Round2(cc) == (cc + 50) \div 100

\* an empty partial function (no row written yet)
NoRows == [b \in {} |-> 0]

\* the body of a request that has not been received
NoReq == [items |-> <<>>, mode |-> "none", payment_method |-> "none",
          rental_duration |-> NULL, gift_email |-> NULL,
          shipping_speed |-> "none"]

\* no consistent-read view yet (the first SELECT of a transaction sets it)
NoSnap == [books |-> NoRows, users |-> {}]

\* a connection sitting in the pool
IdleTxn ==
    [pc |-> "idle", user |-> NULL, req |-> NoReq, idx |-> 0, total |-> 0,
     processedItems |-> <<>>, snap |-> NoSnap, wrote |-> NoRows,
     orderId |-> NULL, pOrder |-> {}, pItems |-> {}, pGifts |-> {},
     recipientUserId |-> NULL, err |-> [message |-> "none", book |-> NULL]]

NoResp == [status |-> 0, message |-> "none", book |-> NULL,
           orderId |-> NULL, orderStatus |-> "none", rolledBack |-> FALSE]

\* no call answered yet
NoCall == [kind |-> "none", user |-> NULL, id |-> NULL, status |-> 0,
           claimed |-> 0, orders |-> {}, items |-> {}]

NoRead == [user |-> NULL, book |-> NULL, source |-> "none", mode |-> "none",
           rental_end |-> NULL, status |-> 0, accessType |-> "none",
           message |-> "none"]

Init ==
    /\ now = 0
    /\ users = {1}
    /\ books = [b \in Books |->
                  [price |-> InitPrice[b], stock |-> InitStock[b],
                   content_url |-> InitContent[b]]]
    /\ orders = {}
    /\ order_items = {}
    /\ gifts = {}
    /\ nextOrderId = 1
    /\ nextGiftId = 1
    /\ txn = [t \in Conns |-> IdleTxn]
    /\ resp = [t \in Conns |-> NoResp]
    /\ lastRead = NoRead
    /\ everBought = {}
    /\ lastCall = NoCall

(* ------------------------- order status helper ------------------------ *)
\* variant: a rental that is not yet due is shown 'Active' whatever is stored
softStatusPatchDueOnly(order, at) ==
    IF order.mode = "gift" THEN "Delivered"
    ELSE IF order.mode = "rent" /\ order.rental_end # NULL
         THEN IF order.rental_end <= at THEN "Completed" ELSE "Active"
         ELSE IF order.mode = "buy" /\ order.delivery_eta # NULL
                 /\ order.status = "Pending" /\ order.delivery_eta <= at
              THEN "Delivered"
              ELSE order.status

\* softStatusPatch(order): the status shown for an order row at time `at`
softStatusPatch(order, at) ==
    LET s1 == IF order.mode = "rent" /\ order.rental_end # NULL
              THEN IF order.rental_end <= at /\ order.status # "Completed"
                   THEN "Completed"
                   ELSE IF order.rental_end > at
                           /\ order.status \notin {"Active", "Completed"}
                        THEN "Active"
                        ELSE order.status
              ELSE order.status
        s2 == IF order.mode = "buy" /\ order.delivery_eta # NULL
                 /\ s1 = "Pending" /\ order.delivery_eta <= at
              THEN "Delivered"
              ELSE s1
    IN  IF order.mode = "gift" /\ s2 # "Delivered" THEN "Delivered" ELSE s2

(* --------------------------- order pricing ---------------------------- *)
\* variant: a rental_duration that is present is used as it is
RentalDaysAsGiven(req) ==
    IF req.mode = "rent"
    THEN IF req.rental_duration # NULL
         THEN req.rental_duration
         ELSE DefaultRentalDays
    ELSE NULL

\* variant: a week is used when rental_duration is missing or not positive
RentalDaysDefaultWeek(req) ==
    IF req.mode = "rent"
    THEN IF req.rental_duration # NULL /\ req.rental_duration # 0
            /\ req.rental_duration > 0
         THEN req.rental_duration
         ELSE 7
    ELSE NULL

\* rentalDays: the duration used for pricing, null outside rent mode;
\* Number(rental_duration) when truthy and positive, else 30
RentalDays(req) ==
    IF req.mode = "rent"
    THEN IF req.rental_duration # NULL /\ req.rental_duration # 0
            /\ req.rental_duration > 0
         THEN req.rental_duration
         ELSE DefaultRentalDays
    ELSE NULL

\* finalPrice of one unit, in hundredths of a cent
FinalPrice(fullPrice, mode, rentalDays) ==
    IF mode = "rent"
    THEN fullPrice * (IF rentalDays = CheapTierDays THEN RentPctDefault
                                                    ELSE RentPctOther)
    ELSE fullPrice * 100

\* variant: a speed that is not in the table ships for nothing
\* (shippingCosts[chosen] ?? 0)
ShippingFeeUnknownFree(shipping_speed) ==
    CASE shipping_speed = "express" -> ShipExpress
      [] shipping_speed = "priority" -> ShipPriority
      [] shipping_speed \in {"standard", "none"} -> ShipStandard
      [] OTHER -> 0

\* shippingCosts[chosen] ?? shippingCosts['standard'], chosen defaulting to
\* 'standard'
ShippingFee(shipping_speed) ==
    CASE shipping_speed = "express" -> ShipExpress
      [] shipping_speed = "priority" -> ShipPriority
      [] OTHER -> ShipStandard

EtaDays(shipping_speed) ==
    IF shipping_speed = "priority" THEN EtaPriority
    ELSE IF shipping_speed = "express" THEN EtaExpress ELSE EtaStandard

\* variant: a gift order starts as 'Pending' like a purchase
InitialStatusGiftPending(mode) ==
    IF mode = "rent" THEN "Active" ELSE "Pending"

\* initialStatus
InitialStatus(mode) ==
    IF mode = "buy" THEN "Pending"
    ELSE IF mode = "rent" THEN "Active" ELSE "Delivered"

(* ------------------ POST /api/orders, step by step -------------------- *)
\* the catch block's input: the thrown error
Fail(T, message, book) ==
    [T EXCEPT !.pc = "failed", !.err = [message |-> message, book |-> book]]

\* after an item of the pricing loop: the next item, or the INSERTs
NextItem(T) ==
    IF T.idx < Len(T.req.items)
    THEN [T EXCEPT !.pc = "select", !.idx = T.idx + 1]
    ELSE [T EXCEPT !.pc = "insert", !.idx = 1]

\* a row lock of another open transaction on book b
LockedByOther(t, b) ==
    \E t2 \in Conns \ {t} : b \in DOMAIN txn[t2].wrote

\* request received: validation, getConnection, beginTransaction
PostOrder(t, u, req) ==
    /\ txn[t].pc = "idle"
    /\ u \in users
    /\ nextOrderId <= MaxOrders
    /\ IF req.items = <<>>
       THEN /\ resp' = [resp EXCEPT ![t] =
                          [NoResp EXCEPT !.status = 400, !.message = "NoItems"]]
            /\ UNCHANGED txn
       ELSE IF req.mode \notin {"buy", "rent", "gift"}
       THEN /\ resp' = [resp EXCEPT ![t] =
                          [NoResp EXCEPT !.status = 400,
                                         !.message = "InvalidMode"]]
            /\ UNCHANGED txn
       ELSE IF req.mode = "gift" /\ req.gift_email = NULL
       THEN /\ resp' = [resp EXCEPT ![t] =
                          [NoResp EXCEPT !.status = 400,
                                         !.message = "GiftEmailRequired"]]
            /\ UNCHANGED txn
       ELSE /\ txn' = [txn EXCEPT ![t] =
                         [IdleTxn EXCEPT !.pc = "select", !.user = u,
                                         !.req = req, !.idx = 1]]
            /\ resp' = [resp EXCEPT ![t] = NoResp]
    /\ UNCHANGED <<now, users, books, orders, order_items, gifts,
                   nextOrderId, nextGiftId, lastRead, everBought, lastCall>>

\* pool.getConnection() throws (or conn.beginTransaction(), as far as the
\* answer goes): the handler's outer catch answers 500 with a fixed
\* message; no connection is taken from the pool
ConnectionError(t, u, req) ==
    /\ txn[t].pc = "idle"
    /\ u \in users
    /\ req.items # <<>>
    /\ req.mode \in {"buy", "rent", "gift"}
    /\ ~(req.mode = "gift" /\ req.gift_email = NULL)
    /\ resp' = [resp EXCEPT ![t] =
                  [NoResp EXCEPT !.status = 500, !.message = "ServerError"]]
    /\ UNCHANGED <<now, users, books, orders, order_items, gifts,
                   nextOrderId, nextGiftId, txn, lastRead, everBought,
                   lastCall>>

\* pool.getConnection() has handed out connection t and
\* conn.beginTransaction() throws: the call stands before the inner try, so
\* its finally does not run; the outer catch answers 500 and the handler
\* returns with the connection still taken (pc "held")
BeginError(t, u, req) ==
    /\ txn[t].pc = "idle"
    /\ u \in users
    /\ req.items # <<>>
    /\ req.mode \in {"buy", "rent", "gift"}
    /\ ~(req.mode = "gift" /\ req.gift_email = NULL)
    /\ txn' = [txn EXCEPT ![t] = [IdleTxn EXCEPT !.pc = "held", !.user = u]]
    /\ resp' = [resp EXCEPT ![t] =
                  [NoResp EXCEPT !.status = 500, !.message = "ServerError"]]
    /\ UNCHANGED <<now, users, books, orders, order_items, gifts,
                   nextOrderId, nextGiftId, lastRead, everBought, lastCall>>

\* one iteration of the pricing loop up to the stock check: item validation,
\* SELECT price, stock (a consistent read: the transaction's snapshot plus
\* its own writes), price selection, total, processedItems, stock check
SelectBook(t) ==
    LET T == txn[t]
        item == T.req.items[T.idx]
        b == item.book_id
        view == IF DOMAIN T.snap.books = {}
                THEN [books |-> books, users |-> users] ELSE T.snap
        S == [T EXCEPT !.snap = view]
    IN  /\ T.pc = "select"
        /\ IF b = 0 \/ item.quantity = 0 \/ item.quantity <= 0
           THEN txn' = [txn EXCEPT ![t] = Fail(T, "InvalidItem", NULL)]
           ELSE IF b \notin DOMAIN view.books
           THEN txn' = [txn EXCEPT ![t] = Fail(S, "BookNotFound", b)]
           ELSE LET stock == IF b \in DOMAIN T.wrote THEN T.wrote[b]
                             ELSE view.books[b].stock
                    finalPrice == FinalPrice(view.books[b].price, T.req.mode,
                                             RentalDays(T.req))
                    P == [S EXCEPT
                            !.total = T.total + finalPrice * item.quantity,
                            !.processedItems = Append(T.processedItems,
                                [book_id |-> b, quantity |-> item.quantity,
                                 price |-> finalPrice])]
                IN  IF T.req.mode = "buy"
                    THEN IF stock < item.quantity
                         THEN txn' = [txn EXCEPT ![t] =
                                        Fail(P, "InsufficientStock", b)]
                         ELSE txn' = [txn EXCEPT ![t] =
                                        [P EXCEPT !.pc = "update"]]
                    ELSE txn' = [txn EXCEPT ![t] = NextItem(P)]
        /\ UNCHANGED <<now, users, books, orders, order_items, gifts,
                       nextOrderId, nextGiftId, resp, lastRead, everBought,
                       lastCall>>

\* variant: the new stock is computed from the value the SELECT returned
\* (SET stock = <read value> - ?) instead of by the database on the row
UpdateStockFromRead(t) ==
    LET T == txn[t]
        item == T.req.items[T.idx]
        b == item.book_id
        cur == IF b \in DOMAIN T.wrote THEN T.wrote[b]
               ELSE T.snap.books[b].stock
        W == [x \in DOMAIN T.wrote \cup {b} |->
                IF x = b THEN cur - item.quantity ELSE T.wrote[x]]
    IN  /\ T.pc = "update"
        /\ ~LockedByOther(t, b)
        /\ txn' = [txn EXCEPT ![t] = NextItem([T EXCEPT !.wrote = W])]
        /\ UNCHANGED <<now, users, books, orders, order_items, gifts,
                       nextOrderId, nextGiftId, resp, lastRead, everBought,
                       lastCall>>

\* UPDATE books SET stock = stock - ? WHERE id = ?: takes the row lock and
\* works on the latest version of the row
UpdateStock(t) ==
    LET T == txn[t]
        item == T.req.items[T.idx]
        b == item.book_id
        cur == IF b \in DOMAIN T.wrote THEN T.wrote[b] ELSE books[b].stock
        W == [x \in DOMAIN T.wrote \cup {b} |->
                IF x = b THEN cur - item.quantity ELSE T.wrote[x]]
    IN  /\ T.pc = "update"
        /\ ~LockedByOther(t, b)
        /\ txn' = [txn EXCEPT ![t] = NextItem([T EXCEPT !.wrote = W])]
        /\ UNCHANGED <<now, users, books, orders, order_items, gifts,
                       nextOrderId, nextGiftId, resp, lastRead, everBought,
                       lastCall>>

\* the UPDATE waits for another transaction's row lock and the database
\* gives up (lock wait timeout, or this transaction is the deadlock victim)
LockWaitAbort(t) ==
    LET T == txn[t]
    IN  /\ T.pc = "update"
        /\ LockedByOther(t, T.req.items[T.idx].book_id)
        /\ txn' = [txn EXCEPT ![t] = Fail(T, "DbError", NULL)]
        /\ UNCHANGED <<now, users, books, orders, order_items, gifts,
                       nextOrderId, nextGiftId, resp, lastRead, everBought,
                       lastCall>>

\* shipping fee, COD fee, dates, initial status, INSERT INTO orders
InsertOrder(t) ==
    LET T == txn[t]
        req == T.req
        shippingFee == IF req.mode = "buy"
                       THEN ShippingFee(req.shipping_speed) ELSE 0
        codFee == IF req.payment_method = "cod" /\ req.mode = "buy"
                  THEN CodFee ELSE 0
        total == T.total + shippingFee * 100 + codFee * 100
        deliveryEta == IF req.mode = "buy"
                       THEN now + EtaDays(req.shipping_speed) ELSE NULL
        rentalDays == RentalDays(req)
        rentalEnd == IF req.mode = "rent"
                     THEN now + (IF rentalDays # NULL /\ rentalDays # 0
                                 THEN rentalDays ELSE DefaultRentalDays)
                     ELSE NULL
        row == [id |-> nextOrderId,
                user_id |-> T.user,
                mode |-> req.mode,
                total |-> Round2(total),
                payment_method |-> req.payment_method,
                rental_duration |-> IF req.rental_duration = 0 THEN NULL
                                    ELSE req.rental_duration,
                rental_end |-> rentalEnd,
                gift_email |-> req.gift_email,
                shipping_speed |-> IF req.mode = "buy"
                                   THEN (IF req.shipping_speed = "none"
                                         THEN "standard"
                                         ELSE req.shipping_speed)
                                   ELSE "none",
                shipping_fee |-> shippingFee,
                cod_fee |-> codFee,
                status |-> InitialStatus(req.mode),
                created_at |-> now,
                delivery_eta |-> deliveryEta,
                payment_status |-> "pending",
                razorpay_order_id |-> NULL,
                razorpay_payment_id |-> NULL,
                n_items |-> Len(req.items)]
    IN  /\ T.pc = "insert"
        /\ txn' = [txn EXCEPT ![t] =
                     [T EXCEPT !.pc = "items", !.idx = 1, !.total = total,
                               !.orderId = nextOrderId, !.pOrder = {row}]]
        /\ nextOrderId' = nextOrderId + 1
        /\ UNCHANGED <<now, users, books, orders, order_items, gifts,
                       nextGiftId, resp, lastRead, everBought, lastCall>>

\* variant: the INSERT runs on the pool instead of the transaction's
\* connection, so the row is committed at once
InsertItemOnPool(t) ==
    LET T == txn[t]
        pi == T.processedItems[T.idx]
        row == [order_id |-> T.orderId, line |-> T.idx,
                book_id |-> pi.book_id, quantity |-> pi.quantity,
                price |-> Round2(pi.price)]
    IN  /\ T.pc = "items"
        /\ order_items' = order_items \cup {row}
        /\ txn' = [txn EXCEPT ![t] =
                     IF T.idx < Len(T.processedItems)
                     THEN [T EXCEPT !.idx = T.idx + 1]
                     ELSE IF T.req.mode = "gift"
                          THEN [T EXCEPT !.pc = "lookup", !.idx = 1]
                          ELSE [T EXCEPT !.pc = "commit", !.idx = 1]]
        /\ UNCHANGED <<now, users, books, orders, gifts,
                       nextOrderId, nextGiftId, resp, lastRead, everBought,
                       lastCall>>

\* INSERT INTO order_items for one processed item; the DECIMAL(10,2) column
\* rounds the price
InsertItem(t) ==
    LET T == txn[t]
        pi == T.processedItems[T.idx]
        row == [order_id |-> T.orderId, line |-> T.idx,
                book_id |-> pi.book_id, quantity |-> pi.quantity,
                price |-> Round2(pi.price)]
        A == [T EXCEPT !.pItems = T.pItems \cup {row}]
    IN  /\ T.pc = "items"
        /\ txn' = [txn EXCEPT ![t] =
                     IF T.idx < Len(T.processedItems)
                     THEN [A EXCEPT !.idx = T.idx + 1]
                     ELSE IF T.req.mode = "gift"
                          THEN [A EXCEPT !.pc = "lookup", !.idx = 1]
                          ELSE [A EXCEPT !.pc = "commit", !.idx = 1]]
        /\ UNCHANGED <<now, users, books, orders, order_items, gifts,
                       nextOrderId, nextGiftId, resp, lastRead, everBought,
                       lastCall>>

\* variant: the gift is attributed to the sender's account
LookupRecipientSender(t) ==
    LET T == txn[t]
    IN  /\ T.pc = "lookup"
        /\ txn' = [txn EXCEPT ![t] =
                     [T EXCEPT !.pc = "gifts", !.idx = 1,
                               !.recipientUserId = T.user]]
        /\ UNCHANGED <<now, users, books, orders, order_items, gifts,
                       nextOrderId, nextGiftId, resp, lastRead, everBought,
                       lastCall>>

\* SELECT id FROM users WHERE email = gift_email (a consistent read)
LookupRecipient(t) ==
    LET T == txn[t]
    IN  /\ T.pc = "lookup"
        /\ txn' = [txn EXCEPT ![t] =
                     [T EXCEPT !.pc = "gifts", !.idx = 1,
                               !.recipientUserId =
                                   IF T.req.gift_email \in T.snap.users
                                   THEN T.req.gift_email ELSE NULL]]
        /\ UNCHANGED <<now, users, books, orders, order_items, gifts,
                       nextOrderId, nextGiftId, resp, lastRead, everBought,
                       lastCall>>

\* a fresh claim token and INSERT INTO gifts for one request item
InsertGift(t) ==
    LET T == txn[t]
        item == T.req.items[T.idx]
        row == [id |-> nextGiftId, order_id |-> T.orderId,
                book_id |-> item.book_id, quantity |-> item.quantity,
                recipient_email |-> T.req.gift_email,
                claim_token |-> nextGiftId,
                recipient_user_id |-> T.recipientUserId,
                claimed_at |-> IF T.recipientUserId # NULL THEN now ELSE NULL]
        A == [T EXCEPT !.pGifts = T.pGifts \cup {row}]
    IN  /\ T.pc = "gifts"
        /\ txn' = [txn EXCEPT ![t] =
                     IF T.idx < Len(T.req.items)
                     THEN [A EXCEPT !.idx = T.idx + 1]
                     ELSE [A EXCEPT !.pc = "commit", !.idx = 1]]
        /\ nextGiftId' = nextGiftId + 1
        /\ UNCHANGED <<now, users, books, orders, order_items, gifts,
                       nextOrderId, resp, lastRead, everBought, lastCall>>

\* conn.commit(): the transaction's writes reach the tables, its row locks
\* are released
Commit(t) ==
    LET T == txn[t]
    IN  /\ T.pc = "commit"
        /\ books' = [b \in Books |->
                       IF b \in DOMAIN T.wrote
                       THEN [books[b] EXCEPT !.stock = T.wrote[b]]
                       ELSE books[b]]
        /\ orders' = orders \cup T.pOrder
        /\ order_items' = order_items \cup T.pItems
        /\ gifts' = gifts \cup T.pGifts
        /\ txn' = [txn EXCEPT ![t] =
                     [T EXCEPT !.pc = "respond", !.wrote = NoRows,
                               !.pOrder = {}, !.pItems = {}, !.pGifts = {}]]
        /\ UNCHANGED <<now, users, nextOrderId, nextGiftId, resp, lastRead,
                       everBought, lastCall>>

\* the created order is read back, patched and returned with 201; finally
\* releases the connection
Respond(t) ==
    LET T == txn[t]
        createdOrder == CHOOSE o \in orders : o.id = T.orderId
    IN  /\ T.pc = "respond"
        /\ resp' = [resp EXCEPT ![t] =
                      [status |-> 201, message |-> "Created", book |-> NULL,
                       orderId |-> T.orderId,
                       orderStatus |-> softStatusPatch(createdOrder, now),
                       rolledBack |-> FALSE]]
        /\ txn' = [txn EXCEPT ![t] = IdleTxn]
        /\ UNCHANGED <<now, users, books, orders, order_items, gifts,
                       nextOrderId, nextGiftId, lastRead, everBought,
                       lastCall>>

\* a statement of the transaction is rejected by the database (connection
\* lost, timeout, constraint); the error is thrown into the catch block
DbError(t) ==
    LET T == txn[t]
    IN  /\ T.pc \in {"select", "update", "insert", "items", "lookup", "gifts",
                     "commit", "respond"}
        /\ txn' = [txn EXCEPT ![t] = Fail(T, "DbError", NULL)]
        /\ UNCHANGED <<now, users, books, orders, order_items, gifts,
                       nextOrderId, nextGiftId, resp, lastRead, everBought,
                       lastCall>>

\* variant: the catch block answers without conn.rollback(), and the
\* connection's pending stock updates reach the table
RollbackKeepsWrites(t) ==
    LET T == txn[t]
    IN  /\ T.pc = "failed"
        /\ books' = [b \in Books |->
                       IF b \in DOMAIN T.wrote
                       THEN [books[b] EXCEPT !.stock = T.wrote[b]]
                       ELSE books[b]]
        /\ resp' = [resp EXCEPT ![t] =
                      [status |-> 400, message |-> T.err.message,
                       book |-> T.err.book, orderId |-> NULL,
                       orderStatus |-> "none",
                       rolledBack |-> (DOMAIN T.wrote # {})]]
        /\ txn' = [txn EXCEPT ![t] = IdleTxn]
        /\ UNCHANGED <<now, users, orders, order_items, gifts,
                       nextOrderId, nextGiftId, lastRead, everBought,
                       lastCall>>

\* catch (e): conn.rollback() drops the uncommitted writes and the locks,
\* the error's message is answered with 400; finally releases the connection
Rollback(t) ==
    LET T == txn[t]
    IN  /\ T.pc = "failed"
        /\ resp' = [resp EXCEPT ![t] =
                      [status |-> 400, message |-> T.err.message,
                       book |-> T.err.book, orderId |-> NULL,
                       orderStatus |-> "none",
                       rolledBack |-> (DOMAIN T.wrote # {})]]
        /\ txn' = [txn EXCEPT ![t] = IdleTxn]
        /\ UNCHANGED <<now, users, books, orders, order_items, gifts,
                       nextOrderId, nextGiftId, lastRead, everBought,
                       lastCall>>

\* catch (e): conn.rollback() itself throws (the connection is lost, and the
\* server drops the uncommitted writes); finally releases the connection
\* and the outer catch answers 500
RollbackError(t) ==
    LET T == txn[t]
    IN  /\ T.pc = "failed"
        /\ resp' = [resp EXCEPT ![t] =
                      [NoResp EXCEPT !.status = 500, !.message = "ServerError",
                                     !.rolledBack = (DOMAIN T.wrote # {})]]
        /\ txn' = [txn EXCEPT ![t] = IdleTxn]
        /\ UNCHANGED <<now, users, books, orders, order_items, gifts,
                       nextOrderId, nextGiftId, lastRead, everBought,
                       lastCall>>

(* ----------------------- accounts, catalog, clock --------------------- *)
\* POST /api/auth/register: a new account for an unused email
Register(u) ==
    /\ u \notin users
    /\ users' = users \cup {u}
    /\ UNCHANGED <<now, books, orders, order_items, gifts, nextOrderId,
                   nextGiftId, txn, resp, lastRead, everBought, lastCall>>

\* POST /:bookId/content (admin): the book gets its content location; the
\* UPDATE waits while an open transaction holds the row
UploadContent(b) ==
    /\ ~books[b].content_url
    /\ \A t \in Conns : b \notin DOMAIN txn[t].wrote
    /\ books' = [books EXCEPT ![b].content_url = TRUE]
    /\ UNCHANGED <<now, users, orders, order_items, gifts, nextOrderId,
                   nextGiftId, txn, resp, lastRead, everBought, lastCall>>

\* the instants at which something changes: the deadlines of the stored
\* orders and the instant after each
Deadlines ==
    LET D == {o.rental_end : o \in orders} \cup {o.delivery_eta : o \in orders}
    IN  (D \cup {d + 1 : d \in D}) \ {NULL, NULL + 1}

\* time passes, up to a deadline or just beyond it
AdvanceClock ==
    /\ \E d \in Deadlines : now < d /\ d <= MaxTime /\ now' = d
    /\ UNCHANGED <<users, books, orders, order_items, gifts, nextOrderId,
                   nextGiftId, txn, resp, lastRead, everBought, lastCall>>

(* ------------------------------ payments ------------------------------ *)
\* a completed-payment buy order of user u that contains book b
HasCompletedBuy(O, I, u, b) ==
    \E o \in O : /\ o.user_id = u /\ o.mode = "buy"
                 /\ o.payment_status = "completed"
                 /\ \E i \in I : i.order_id = o.id /\ i.book_id = b

\* POST /api/payments/create-order: the gateway order made for order oid is
\* stored with it.  The gateway's id is unique to the order; it is written
\* as the order's own id.
CreatePaymentOrder(u, oid) ==
    /\ u \in users
    /\ \E o \in orders : o.id = oid /\ o.user_id = u
    /\ orders' = {IF o.id = oid THEN [o EXCEPT !.razorpay_order_id = oid]
                  ELSE o : o \in orders}
    /\ UNCHANGED <<now, users, books, order_items, gifts, nextOrderId,
                   nextGiftId, txn, resp, lastRead, everBought, lastCall>>

\* variant: the UPDATEs of /verify without their AND user_id = ?
VerifyPaymentAnyUser(u, rid, sigOk, gwStatus) ==
    LET mine(o) == o.razorpay_order_id = rid
        failed == {IF mine(o) THEN [o EXCEPT !.payment_status = "failed"]
                   ELSE o : o \in orders}
        paid == {IF mine(o)
                 THEN [o EXCEPT !.payment_status = "completed",
                                !.razorpay_payment_id = rid,
                                !.payment_method = "razorpay"]
                 ELSE o : o \in orders}
        first == IF \E o \in paid : mine(o)
                 THEN {CHOOSE o \in paid : mine(o)} ELSE {}
        restated == {IF o \in first
                     THEN [o EXCEPT !.status = InitialStatus(o.mode)]
                     ELSE o : o \in paid}
    IN  /\ u \in users
        /\ sigOk => \E o \in orders : o.razorpay_order_id = rid
        /\ orders' = IF ~sigOk THEN failed
                     ELSE IF gwStatus # "captured" THEN failed
                     ELSE restated
        /\ everBought' = everBought \cup
              {p \in AllUsers \X Books :
                   HasCompletedBuy(orders', order_items, p[1], p[2])}
        /\ UNCHANGED <<now, users, books, order_items, gifts, nextOrderId,
                       nextGiftId, txn, resp, lastRead, lastCall>>

\* POST /api/payments/verify by user u for gateway order rid, whose payment
\* carries the id rid as well.  sigOk: the signature matches; gwStatus: the
\* payment status the gateway reports.
VerifyPayment(u, rid, sigOk, gwStatus) ==
    LET mine(o) == o.razorpay_order_id = rid /\ o.user_id = u
        failed == {IF mine(o) THEN [o EXCEPT !.payment_status = "failed"]
                   ELSE o : o \in orders}
        paid == {IF mine(o)
                 THEN [o EXCEPT !.payment_status = "completed",
                                !.razorpay_payment_id = rid,
                                !.payment_method = "razorpay"]
                 ELSE o : o \in orders}
        \* updatedOrder[0]: its status is set again from its mode
        first == IF \E o \in paid : mine(o)
                 THEN {CHOOSE o \in paid : mine(o)} ELSE {}
        restated == {IF o \in first
                     THEN [o EXCEPT !.status = InitialStatus(o.mode)]
                     ELSE o : o \in paid}
    IN  /\ u \in users
        \* a matching signature exists only for ids the gateway has issued
        /\ sigOk => \E o \in orders : o.razorpay_order_id = rid
        /\ orders' = IF ~sigOk THEN failed
                     ELSE IF gwStatus # "captured" THEN failed
                     ELSE restated
        /\ everBought' = everBought \cup
              {p \in AllUsers \X Books :
                   HasCompletedBuy(orders', order_items, p[1], p[2])}
        /\ UNCHANGED <<now, users, books, order_items, gifts, nextOrderId,
                       nextGiftId, txn, resp, lastRead, lastCall>>

\* POST /verify in its other version in the repository, which accepts an
\* authorized payment as pending, marks nothing failed, and creates the
\* gift rows of a gift order once its payment is captured.  The gift of the
\* item on line k gets the k-th fresh id and token.
VerifyPaymentWithGifts(u, rid, sigOk, gwStatus) ==
    LET mine(o) == o.razorpay_order_id = rid /\ o.user_id = u
        paymentStatus == IF gwStatus = "captured" THEN "completed"
                         ELSE "pending"
        paid == {IF mine(o)
                 THEN [o EXCEPT !.payment_status = paymentStatus,
                                !.razorpay_payment_id = rid,
                                !.payment_method = "razorpay"]
                 ELSE o : o \in orders}
        first == IF paymentStatus = "completed" /\ \E o \in paid : mine(o)
                 THEN {CHOOSE o \in paid : mine(o)} ELSE {}
        restated == {IF o \in first
                     THEN [o EXCEPT !.status = InitialStatus(o.mode)]
                     ELSE o : o \in paid}
        gifted == {o \in first : o.mode = "gift" /\ o.gift_email # NULL}
        orderItems == {i \in order_items : \E o \in gifted : i.order_id = o.id}
        newGifts == {[id |-> nextGiftId + i.line - 1,
                      order_id |-> i.order_id,
                      book_id |-> i.book_id, quantity |-> i.quantity,
                      recipient_email |->
                          (CHOOSE o \in gifted : o.id = i.order_id).gift_email,
                      claim_token |-> nextGiftId + i.line - 1,
                      recipient_user_id |->
                          LET e == (CHOOSE o \in gifted :
                                        o.id = i.order_id).gift_email
                          IN  IF e \in users THEN e ELSE NULL,
                      claimed_at |-> NULL] : i \in orderItems}
        ok == sigOk /\ gwStatus \in {"captured", "authorized"}
    IN  /\ u \in users
        \* a matching signature exists only for ids the gateway has issued
        /\ sigOk => \E o \in orders : o.razorpay_order_id = rid
        /\ nextGiftId + Cardinality(orderItems) <= MaxGifts + 1
        /\ orders' = IF ok THEN restated ELSE orders
        /\ gifts' = IF ok THEN gifts \cup newGifts ELSE gifts
        /\ nextGiftId' = IF ok THEN nextGiftId + Cardinality(orderItems)
                         ELSE nextGiftId
        /\ everBought' = everBought \cup
              {p \in AllUsers \X Books :
                   HasCompletedBuy(orders', order_items, p[1], p[2])}
        /\ UNCHANGED <<now, users, books, order_items, nextOrderId, txn,
                       resp, lastRead, lastCall>>

\* webhook payment.captured -> handlePaymentCaptured(payment)
WebhookCaptured(pid) ==
    /\ orders' = {IF o.razorpay_payment_id = pid
                  THEN [o EXCEPT !.payment_status = "captured"]
                  ELSE o : o \in orders}
    /\ UNCHANGED <<now, users, books, order_items, gifts, nextOrderId,
                   nextGiftId, txn, resp, lastRead, everBought, lastCall>>

\* webhook payment.failed -> handlePaymentFailed(payment)
WebhookFailed(pid) ==
    /\ orders' = {IF o.razorpay_payment_id = pid
                  THEN [o EXCEPT !.payment_status = "failed"]
                  ELSE o : o \in orders}
    /\ UNCHANGED <<now, users, books, order_items, gifts, nextOrderId,
                   nextGiftId, txn, resp, lastRead, everBought, lastCall>>

(* ------------------------ GET /:bookId/read --------------------------- *)
\* the rows of the direct-order query: completed-payment orders of the user
\* that contain the book
DirectOrders(u, b) ==
    {o \in orders : /\ o.user_id = u
                    /\ o.payment_status = "completed"
                    /\ b \in Books
                    /\ \E i \in order_items :
                           i.order_id = o.id /\ i.book_id = b}

\* ORDER BY created_at DESC LIMIT 1: any row with the latest created_at
LatestOf(S) == {o \in S : \A p \in S : p.created_at <= o.created_at}

\* variant: gifts are matched by recipient_user_id alone
GiftRowsByUserId(u, b) ==
    {g \in gifts : /\ g.book_id = b
                   /\ b \in Books
                   /\ g.recipient_user_id = u}

\* the rows of the gift query
GiftRows(u, b) ==
    {g \in gifts : /\ g.book_id = b
                   /\ b \in Books
                   /\ (g.recipient_user_id = u \/ g.recipient_email = u)}

NoAccess == [source |-> "none", mode |-> "none", rental_end |-> NULL]

\* bookAccess: the order row if there is one, else the gift row, else null
BookAccess(u, b) ==
    IF DirectOrders(u, b) # {}
    THEN {[source |-> "order", mode |-> o.mode, rental_end |-> o.rental_end] :
              o \in LatestOf(DirectOrders(u, b))}
    ELSE IF GiftRows(u, b) # {}
    THEN {[source |-> "gift", mode |-> "purchase", rental_end |-> NULL]}
    ELSE {NoAccess}

\* the response built from bookAccess at time `at`
ReadResponse(u, b, access, at) ==
    LET base == [user |-> u, book |-> b, source |-> access.source,
                 mode |-> access.mode, rental_end |-> access.rental_end,
                 status |-> 0, accessType |-> "none", message |-> "none"]
    IN  IF access.source = "none"
        THEN [base EXCEPT !.status = 403, !.message = "no access"]
        ELSE IF ~books[b].content_url
        THEN [base EXCEPT !.status = 404, !.message = "content not available"]
        ELSE IF access.mode = "rent"
        THEN IF at > access.rental_end
             THEN [base EXCEPT !.status = 403, !.message = "rental expired"]
             ELSE [base EXCEPT !.status = 200, !.accessType = "rental"]
        ELSE [base EXCEPT !.status = 200,
                          !.accessType = IF access.source = "gift"
                                         THEN "gift" ELSE "purchase"]

\* every response the endpoint can give in the current state
ReadOutcomes(u, b) == {ReadResponse(u, b, a, now) : a \in BookAccess(u, b)}

ReadBook(u, b) ==
    /\ u \in users
    /\ lastRead' \in ReadOutcomes(u, b)
    /\ UNCHANGED <<now, users, books, orders, order_items, gifts, nextOrderId,
                   nextGiftId, txn, resp, everBought, lastCall>>

(* ------------- GET /pdf/:bookId and checkBookAccess ------------------- *)
\* the statuses GET /pdf/:bookId can answer to user u for book b at time
\* `at`: the latest completed-payment order of the user with the book, its
\* rental expiry, then the content; gifts are not looked at
SecurePdf(u, b, at) ==
    IF DirectOrders(u, b) = {} THEN {403}
    ELSE {IF o.mode = "rent" /\ o.rental_end # NULL /\ at > o.rental_end
          THEN 403
          ELSE IF ~books[b].content_url THEN 404 ELSE 200 :
              o \in LatestOf(DirectOrders(u, b))}

\* the values of hasAccess checkBookAccess(userId, bookId) can return at
\* time `at`: the latest completed-payment order and its rental expiry, else
\* a gift row whose recipient_user_id is the user
checkBookAccess(u, b, at) ==
    IF DirectOrders(u, b) # {}
    THEN {~(o.mode = "rent" /\ at > o.rental_end) :
              o \in LatestOf(DirectOrders(u, b))}
    ELSE {\E g \in gifts : g.book_id = b /\ g.recipient_user_id = u}

(* --------------- GET /api/orders and GET /api/orders/:id --------------- *)
\* an order row as the two routes return it: softStatusPatch applied
Shown(o) == [o EXCEPT !.status = softStatusPatch(o, now)]

\* variant: the list without its WHERE user_id = ?
ListOrdersOfAll(u) ==
    LET mine == orders
        orderIds == {o.id : o \in mine}
    IN  /\ u \in users
        /\ lastCall' = [NoCall EXCEPT
                          !.kind = "list", !.user = u, !.status = 200,
                          !.orders = {Shown(o) : o \in mine},
                          !.items = {i \in order_items :
                                        i.order_id \in orderIds}]
        /\ UNCHANGED <<now, users, books, orders, order_items, gifts,
                       nextOrderId, nextGiftId, txn, resp, lastRead,
                       everBought>>

\* GET /api/orders: the user's orders with their items
ListOrders(u) ==
    LET mine == {o \in orders : o.user_id = u}
        orderIds == {o.id : o \in mine}
    IN  /\ u \in users
        /\ lastCall' = [NoCall EXCEPT
                          !.kind = "list", !.user = u, !.status = 200,
                          !.orders = {Shown(o) : o \in mine},
                          !.items = {i \in order_items :
                                        i.order_id \in orderIds}]
        /\ UNCHANGED <<now, users, books, orders, order_items, gifts,
                       nextOrderId, nextGiftId, txn, resp, lastRead,
                       everBought>>

\* variant: the items are returned with the price the catalog has now
GetOrderLivePrice(u, id) ==
    LET found == {o \in orders : o.id = id /\ o.user_id = u}
    IN  /\ u \in users
        /\ lastCall' = IF found = {}
                       THEN [NoCall EXCEPT !.kind = "get", !.user = u,
                                           !.id = id, !.status = 404]
                       ELSE [NoCall EXCEPT
                               !.kind = "get", !.user = u, !.id = id,
                               !.status = 200,
                               !.orders = {Shown(o) : o \in found},
                               !.items =
                                   {[i EXCEPT !.price = books[i.book_id].price] :
                                       i \in {j \in order_items :
                                                 j.order_id = id}}]
        /\ UNCHANGED <<now, users, books, orders, order_items, gifts,
                       nextOrderId, nextGiftId, txn, resp, lastRead,
                       everBought>>

\* GET /api/orders/:id: the order if it is the user's, else 404
GetOrder(u, id) ==
    LET found == {o \in orders : o.id = id /\ o.user_id = u}
    IN  /\ u \in users
        /\ lastCall' = IF found = {}
                       THEN [NoCall EXCEPT !.kind = "get", !.user = u,
                                           !.id = id, !.status = 404]
                       ELSE [NoCall EXCEPT
                               !.kind = "get", !.user = u, !.id = id,
                               !.status = 200,
                               !.orders = {Shown(o) : o \in found},
                               !.items = {i \in order_items :
                                             i.order_id = id}]
        /\ UNCHANGED <<now, users, books, orders, order_items, gifts,
                       nextOrderId, nextGiftId, txn, resp, lastRead,
                       everBought>>

(* ------------------------------- gifts -------------------------------- *)
\* the rows POST /api/gifts/claim updates for user u
BulkClaimable(G, u) ==
    {g \in G : g.recipient_email = u /\ g.recipient_user_id = NULL}

\* the gifts table after the bulk claim of user u at time `at`
BulkClaim(G, u, at) ==
    {IF g \in BulkClaimable(G, u)
     THEN [g EXCEPT !.recipient_user_id = u, !.claimed_at = at]
     ELSE g : g \in G}

\* POST /api/gifts/claim
ClaimGifts(u) ==
    /\ u \in users
    /\ gifts' = BulkClaim(gifts, u, now)
    /\ lastCall' = [NoCall EXCEPT
                      !.kind = "claim", !.user = u, !.status = 200,
                      !.claimed = Cardinality(BulkClaimable(gifts, u))]
    /\ UNCHANGED <<now, users, books, orders, order_items, nextOrderId,
                   nextGiftId, txn, resp, lastRead, everBought>>

\* variant: the ownership check looks for the gift by its id alone
OwnGiftById(G, u, giftId) ==
    {g \in G : g.id = giftId}

\* the rows the ownership check of POST /api/gifts/claim/:giftId finds
OwnGift(G, u, giftId) ==
    {g \in G : g.id = giftId
               /\ (g.recipient_user_id = u \/ g.recipient_email = u)}

\* the UPDATE without its test of claimed_at
OneClaimableAny(G, giftId) ==
    {g \in G : g.id = giftId}

\* the rows its UPDATE changes
OneClaimable(G, giftId) ==
    {g \in G : g.id = giftId /\ g.claimed_at = NULL}

\* the gifts table after the claim of gift giftId by user u at time `at`
ClaimOne(G, u, giftId, at) ==
    IF OwnGift(G, u, giftId) = {} THEN G
    ELSE {IF g \in OneClaimable(G, giftId)
          THEN [g EXCEPT !.recipient_user_id = u, !.claimed_at = at]
          ELSE g : g \in G}

\* POST /api/gifts/claim/:giftId
ClaimGift(u, giftId) ==
    /\ u \in users
    /\ gifts' = ClaimOne(gifts, u, giftId, now)
    /\ lastCall' = IF OwnGift(gifts, u, giftId) = {}
                   THEN [NoCall EXCEPT !.kind = "claimOne", !.user = u,
                                       !.id = giftId, !.status = 404]
                   ELSE [NoCall EXCEPT
                           !.kind = "claimOne", !.user = u, !.id = giftId,
                           !.status = 200,
                           !.claimed = Cardinality(OneClaimable(gifts, giftId))]
    /\ UNCHANGED <<now, users, books, orders, order_items, nextOrderId,
                   nextGiftId, txn, resp, lastRead, everBought>>

(* ---------------------- background job (every minute) ----------------- *)
\* variant: delivery in two stages, one stage per run of the job
TickDeliverStaged(O, at) ==
    {IF o.status = "Pending" /\ o.delivery_eta # NULL /\ o.delivery_eta <= at
     THEN [o EXCEPT !.status = "Shipped"]
     ELSE IF o.status = "Shipped"
          THEN [o EXCEPT !.status = "Delivered"] ELSE o : o \in O}

\* UPDATE orders SET status='Delivered' WHERE status='Pending' AND
\* delivery_eta IS NOT NULL AND delivery_eta <= NOW()
TickDeliver(O, at) ==
    {IF o.status = "Pending" /\ o.delivery_eta # NULL /\ o.delivery_eta <= at
     THEN [o EXCEPT !.status = "Delivered"] ELSE o : o \in O}

\* UPDATE orders SET status='Completed' WHERE mode='rent' AND rental_end IS
\* NOT NULL AND rental_end <= NOW() AND status!='Completed'
TickComplete(O, at) ==
    {IF o.mode = "rent" /\ o.rental_end # NULL /\ o.rental_end <= at
        /\ o.status # "Completed"
     THEN [o EXCEPT !.status = "Completed"] ELSE o : o \in O}

\* the orders table after one run of the job at time `at`
TickOrders(O, at) == TickComplete(TickDeliver(O, at), at)

\* variant: a job that runs no more once a run has failed
TickUnlessFailed ==
    /\ lastCall.kind # "tickError"
    /\ orders' = TickOrders(orders, now)
    /\ UNCHANGED <<now, users, books, order_items, gifts, nextOrderId,
                   nextGiftId, txn, resp, lastRead, everBought, lastCall>>

\* one run of the job in which both UPDATEs succeed
Tick ==
    /\ orders' = TickOrders(orders, now)
    /\ UNCHANGED <<now, users, books, order_items, gifts, nextOrderId,
                   nextGiftId, txn, resp, lastRead, everBought, lastCall>>

\* a run of the job in which the store rejects the first UPDATE, or the
\* second after the first was applied: the catch logs the error, with the
\* table as the run left it, and the timer stays armed
TickError ==
    /\ \E left \in {orders, TickDeliver(orders, now)} :
          /\ orders' = left
          /\ lastCall' = [NoCall EXCEPT !.kind = "tickError", !.status = 500,
                                        !.orders = left]
    /\ UNCHANGED <<now, users, books, order_items, gifts, nextOrderId,
                   nextGiftId, txn, resp, lastRead, everBought>>

(* ------------------------ PUT /api/admin/books/:id -------------------- *)
\* price, stock: the fields of the body (NULL: the field is absent); the
\* UPDATE waits while an open transaction holds the row
AdminUpdateBook(b, price, stock) ==
    /\ \A t \in Conns : b \notin DOMAIN txn[t].wrote
    /\ IF price = NULL /\ stock = NULL
       THEN /\ lastCall' = [NoCall EXCEPT !.kind = "admin", !.id = b,
                                          !.status = 400]
            /\ UNCHANGED books
       ELSE /\ books' = [books EXCEPT
                           ![b].price = IF price = NULL THEN @ ELSE price,
                           ![b].stock = IF stock = NULL THEN @ ELSE stock]
            /\ lastCall' = [NoCall EXCEPT !.kind = "admin", !.id = b,
                                          !.status = 200]
    /\ UNCHANGED <<now, users, orders, order_items, gifts, nextOrderId,
                   nextGiftId, txn, resp, lastRead, everBought>>

(* ------------------------- request bodies ----------------------------- *)
Item(b, q) == [book_id |-> b, quantity |-> q]

Req(items, mode, payment_method, rental_duration, gift_email, shipping_speed) ==
    [items |-> items, mode |-> mode, payment_method |-> payment_method,
     rental_duration |-> rental_duration, gift_email |-> gift_email,
     shipping_speed |-> shipping_speed]

\* requests of the concurrency study: item lists that share books in both
\* orders, exceed the stock at the first or at a later item, name a book
\* that is not in the catalog, or are malformed
ConcRequests ==
    {Req(items, "buy", "none", NULL, NULL, "none") : items \in
        {<<Item(1, 1)>>, <<Item(1, 2)>>, <<Item(1, 1), Item(2, 1)>>,
         <<Item(2, 1), Item(1, 1)>>, <<Item(1, 1), Item(2, 2)>>,
         <<Item(1, 2), Item(1, 1)>>, <<Item(2, 1), Item(3, 1)>>,
         <<Item(1, 0)>>, <<>>}}
    \cup {Req(<<Item(1, 1)>>, "rent", "none", NULL, NULL, "none"),
          Req(<<Item(1, 1), Item(2, 1)>>, "gift", "none", NULL, 1, "none"),
          Req(<<Item(2, 1)>>, "gift", "none", NULL, 2, "none"),
          Req(<<Item(1, 1)>>, "gift", "none", NULL, NULL, "none"),
          Req(<<Item(1, 1)>>, "lend", "none", NULL, NULL, "none")}

\* requests of the access study: one copy of book 1, bought, rented for two
\* days, or given to an address with or without an account
AccessRequests ==
    {Req(<<Item(1, 1)>>, "buy", "none", NULL, NULL, "none"),
     Req(<<Item(1, 1)>>, "rent", "none", 2, NULL, "none"),
     Req(<<Item(1, 1)>>, "gift", "none", NULL, 1, "none"),
     Req(<<Item(1, 1)>>, "gift", "none", NULL, 2, "none")}

\* requests of the pricing study: one or two lines over both books, every
\* shipping speed (also missing and unknown), payment method and rental
\* duration (also missing, zero and negative), in every mode
PriceItems ==
    LET L == {Item(b, q) : b \in Books, q \in {1, 2}}
    IN  {<<x>> : x \in L} \cup {<<x, y>> : x \in L, y \in L}

PriceRequests ==
    {Req(items, "buy", pm, NULL, NULL, ss) :
        items \in PriceItems, pm \in {"none", "cod", "card"},
        ss \in {"none", "standard", "express", "priority", "overnight"}}
    \cup {Req(items, "rent", pm, rd, NULL, ss) :
        items \in PriceItems, pm \in {"none", "cod"},
        rd \in {NULL, 0, -3, 7, 30}, ss \in {"none", "express"}}
    \cup {Req(items, "gift", pm, NULL, 2, ss) :
        items \in PriceItems, pm \in {"none", "cod"},
        ss \in {"none", "priority"}}

(* --------------------------- specifications --------------------------- *)
\* the statements of the order transactions running on the connections of C
OrderSteps(C) ==
    \/ \E t \in C : SelectBook(t)
    \/ \E t \in C : UpdateStock(t)
    \/ \E t \in C : InsertOrder(t)
    \/ \E t \in C : InsertItem(t)
    \/ \E t \in C : LookupRecipient(t)
    \/ \E t \in C : InsertGift(t)
    \/ \E t \in C : Commit(t)
    \/ \E t \in C : Respond(t)
    \/ \E t \in C : DbError(t)
    \/ \E t \in C : Rollback(t)

\* concurrent order creation on two connections
Next ==
    \/ \E t \in Conns, u \in AllUsers, req \in ConcRequests :
           PostOrder(t, u, req)
    \/ OrderSteps(Conns)
    \/ \E t \in Conns : LockWaitAbort(t)

Spec == Init /\ [][Next]_vars

\* pricing: one request at a time on a store with no order yet and enough
\* stock for every request
InitPricing ==
    /\ now = 0
    /\ users = {1}
    /\ books = [b \in Books |->
                  [price |-> InitPrice[b], stock |-> 4,
                   content_url |-> InitContent[b]]]
    /\ orders = {}
    /\ order_items = {}
    /\ gifts = {}
    /\ nextOrderId = 1
    /\ nextGiftId = 1
    /\ txn = [t \in Conns |-> IdleTxn]
    /\ resp = [t \in Conns |-> NoResp]
    /\ lastRead = NoRead
    /\ everBought = {}
    /\ lastCall = NoCall

NextPricing ==
    \/ \E u \in AllUsers, req \in PriceRequests :
           orders = {} /\ PostOrder(1, u, req)
    \/ OrderSteps({1})

SpecPricing == InitPricing /\ [][NextPricing]_vars

\* access: orders are created one at a time, paid, and their books are read
\* while accounts register, content is uploaded and time passes
NextAccess ==
    \/ \E req \in AccessRequests : PostOrder(1, 1, req)
    \/ OrderSteps({1})
    \/ \E u \in AllUsers : Register(u)
    \/ \E b \in Books : UploadContent(b)
    \/ AdvanceClock
    \/ \E u \in AllUsers, oid \in 1..MaxOrders : CreatePaymentOrder(u, oid)
    \/ \E u \in AllUsers, rid \in 1..MaxOrders, sigOk \in BOOLEAN,
          gwStatus \in {"captured", "failed"} :
           VerifyPayment(u, rid, sigOk, gwStatus)
    \/ \E pid \in 1..MaxOrders : WebhookCaptured(pid)
    \/ \E pid \in 1..MaxOrders : WebhookFailed(pid)
    \/ \E u \in AllUsers, b \in Books : ReadBook(u, b)

SpecAccess == Init /\ [][NextAccess]_vars

\* requests of the creation study: every mode with and without the
\* optional fields of the other modes, rental durations missing, zero,
\* negative, one day and thirty days, and items that fail
FieldRequests ==
    {Req(<<Item(1, 1)>>, "rent", "none", rd, ge, ss) :
        rd \in {NULL, 0, -3, 1, 30}, ge \in {NULL, 2},
        ss \in {"none", "express"}}
    \cup {Req(<<Item(1, 1)>>, "buy", "none", rd, ge, ss) :
        rd \in {NULL, 7}, ge \in {NULL, 2}, ss \in {"none", "priority"}}
    \cup {Req(items, "buy", "none", NULL, NULL, "none") :
        items \in {<<Item(2, 2)>>, <<Item(1, 0)>>, <<Item(3, 1)>>}}
    \cup {Req(items, "gift", "none", rd, ge, "none") :
        items \in {<<Item(1, 1)>>, <<Item(1, 1), Item(2, 1)>>},
        rd \in {NULL, 7}, ge \in {1, 2}}

\* creation: one request at a time while accounts register and time passes
\* between requests (a request lasts far less than a day)
NextCreate ==
    \/ \E u \in AllUsers, req \in FieldRequests : PostOrder(1, u, req)
    \/ \E u \in AllUsers, req \in FieldRequests : ConnectionError(1, u, req)
    \/ OrderSteps({1})
    \/ \E u \in AllUsers : Register(u)
    \/ (\A t \in Conns : txn[t].pc = "idle") /\ AdvanceClock

SpecCreate == Init /\ [][NextCreate]_vars

\* requests of the gift study: a gift of two books to an address without
\* an account yet, a gift of one book to the sender's own address, and a
\* priority purchase, whose delivery date lets time pass
GiftRequests ==
    {Req(<<Item(1, 1), Item(2, 1)>>, "gift", "none", NULL, 2, "none"),
     Req(<<Item(1, 1)>>, "gift", "none", NULL, 1, "none"),
     Req(<<Item(1, 1)>>, "buy", "none", NULL, NULL, "priority")}

\* gifts: orders of user 1 are created and paid through either version of
\* the verification while accounts register
NextGifts ==
    \/ \E req \in GiftRequests : PostOrder(1, 1, req)
    \/ OrderSteps({1})
    \/ \E u \in AllUsers : Register(u)
    \/ \E oid \in 1..MaxOrders : CreatePaymentOrder(1, oid)
    \/ \E rid \in 1..MaxOrders, sigOk \in BOOLEAN,
          gwStatus \in {"captured", "failed"} :
           VerifyPayment(1, rid, sigOk, gwStatus)
    \/ \E rid \in 1..MaxOrders, sigOk \in BOOLEAN,
          gwStatus \in {"captured", "authorized", "failed"} :
           VerifyPaymentWithGifts(1, rid, sigOk, gwStatus)

SpecGifts == Init /\ [][NextGifts]_vars

\* claims: gifts are made, some again by the verification that creates
\* gift rows, and claimed in bulk or one by one, while the recipient
\* registers and time passes between requests
NextClaims ==
    \/ \E req \in GiftRequests : PostOrder(1, 1, req)
    \/ OrderSteps({1})
    \/ \E u \in AllUsers : Register(u)
    \/ (\A t \in Conns : txn[t].pc = "idle") /\ AdvanceClock
    \/ \E oid \in 1..MaxOrders : CreatePaymentOrder(1, oid)
    \/ \E rid \in 1..MaxOrders :
           VerifyPaymentWithGifts(1, rid, TRUE, "captured")
    \/ \E u \in AllUsers : ClaimGifts(u)
    \/ \E u \in AllUsers, giftId \in 1..MaxGifts : ClaimGift(u, giftId)

SpecClaims == Init /\ [][NextClaims]_vars

\* requests of the order-history study: a priority purchase and a rental of
\* one day, whose delivery and due dates pass within the modelled time, and
\* a gift
HistoryRequests ==
    {Req(<<Item(1, 1)>>, "buy", "none", NULL, NULL, "priority"),
     Req(<<Item(1, 1)>>, "rent", "none", 1, NULL, "none"),
     Req(<<Item(2, 1)>>, "gift", "none", NULL, 2, "none")}

\* the catalog fields an administrator sends for book 1 (NULL: absent)
AdminPrices == {NULL, 5000}
AdminStocks == {NULL, 3}

\* order history: both users order, the administrator edits book 1, the
\* background job runs, time passes, and the users read their orders
NextHistory ==
    \/ \E u \in AllUsers, req \in HistoryRequests : PostOrder(1, u, req)
    \/ OrderSteps({1})
    \/ \E u \in AllUsers : Register(u)
    \/ (\A t \in Conns : txn[t].pc = "idle") /\ AdvanceClock
    \/ \E price \in AdminPrices, stock \in AdminStocks :
           AdminUpdateBook(1, price, stock)
    \/ Tick
    \/ \E u \in AllUsers : ListOrders(u)
    \/ \E u \in AllUsers, id \in 1..MaxOrders : GetOrder(u, id)

SpecHistory == Init /\ [][NextHistory]_vars

\* the status values an orders row can hold: the four the code writes and
\* the default of the column
StoredStatuses == {"Pending", "Active", "Delivered", "Completed", "pending"}
StoredDates == {NULL, 1, 2}

\* an orders row of user 1 for one copy of book 1, with the given mode,
\* status and dates
StoredRow(mode, status, rentalEnd, deliveryEta) ==
    [id |-> 1, user_id |-> 1, mode |-> mode,
     total |-> InitPrice[1],
     payment_method |-> "none",
     rental_duration |-> NULL,
     rental_end |-> rentalEnd,
     gift_email |-> IF mode = "gift" THEN 2 ELSE NULL,
     shipping_speed |-> "none",
     shipping_fee |-> 0, cod_fee |-> 0,
     status |-> status,
     created_at |-> 0,
     delivery_eta |-> deliveryEta,
     payment_status |-> "pending",
     razorpay_order_id |-> NULL, razorpay_payment_id |-> NULL,
     n_items |-> 1]

\* status derivation: the orders table holds one row of any mode, status
\* and dates
InitStatus ==
    /\ now = 0
    /\ users = {1}
    /\ books = [b \in Books |->
                  [price |-> InitPrice[b], stock |-> InitStock[b],
                   content_url |-> InitContent[b]]]
    /\ \E mode \in {"buy", "rent", "gift"}, status \in StoredStatuses,
          rentalEnd \in StoredDates, deliveryEta \in StoredDates :
           orders = {StoredRow(mode, status, rentalEnd, deliveryEta)}
    /\ order_items = {[order_id |-> 1, line |-> 1, book_id |-> 1,
                       quantity |-> 1, price |-> InitPrice[1]]}
    /\ gifts = {}
    /\ nextOrderId = 2
    /\ nextGiftId = 1
    /\ txn = [t \in Conns |-> IdleTxn]
    /\ resp = [t \in Conns |-> NoResp]
    /\ lastRead = NoRead
    /\ everBought = {}
    /\ lastCall = NoCall

\* the row is listed and retrieved while time passes
NextStatus ==
    \/ AdvanceClock
    \/ \E u \in AllUsers : ListOrders(u)
    \/ \E u \in AllUsers, id \in 1..MaxOrders : GetOrder(u, id)

SpecStatus == InitStatus /\ [][NextStatus]_vars

\* the background job: orders are created, become due and are paid, which
\* restates their status, while the job runs every minute and some of its
\* runs fail
NextJob ==
    \/ \E u \in AllUsers, req \in HistoryRequests : PostOrder(1, u, req)
    \/ OrderSteps({1})
    \/ \E u \in AllUsers : Register(u)
    \/ (\A t \in Conns : txn[t].pc = "idle") /\ AdvanceClock
    \/ \E u \in AllUsers, oid \in 1..MaxOrders : CreatePaymentOrder(u, oid)
    \/ \E u \in AllUsers, rid \in 1..MaxOrders :
           VerifyPayment(u, rid, TRUE, "captured")
    \/ Tick
    \/ TickError

\* the timer keeps firing and the store does not reject every run: a run
\* in which both UPDATEs succeed is not postponed for ever
SpecJob == Init /\ [][NextJob]_vars /\ WF_vars(Tick)

\* requests of the payment study: a purchase and a gift
PaymentRequests ==
    {Req(<<Item(1, 1)>>, "buy", "none", NULL, NULL, "none"),
     Req(<<Item(2, 1)>>, "gift", "none", NULL, 2, "none")}

\* payments: both users order, open gateway orders and post verifications
\* for any gateway order, their own or not, with and without a matching
\* signature, while the gateway sends its webhooks
NextPayments ==
    \/ \E u \in AllUsers, req \in PaymentRequests : PostOrder(1, u, req)
    \/ OrderSteps({1})
    \/ \E u \in AllUsers : Register(u)
    \/ \E u \in AllUsers, oid \in 1..MaxOrders : CreatePaymentOrder(u, oid)
    \/ \E u \in AllUsers, rid \in 1..MaxOrders, sigOk \in BOOLEAN,
          gwStatus \in {"captured", "failed"} :
           VerifyPayment(u, rid, sigOk, gwStatus)
    \/ \E pid \in 1..MaxOrders : WebhookCaptured(pid)
    \/ \E pid \in 1..MaxOrders : WebhookFailed(pid)

SpecPayments == Init /\ [][NextPayments]_vars

\* the steps of the order-creation handler on connection 1, the failure of
\* its rollback included
HandlerSteps == OrderSteps({1}) \/ RollbackError(1)

\* connections: requests of both users are served on connection 1 while
\* the database may reject any statement, the beginning of the transaction
\* and the rollback included
NextRelease ==
    \/ \E u \in AllUsers, req \in HistoryRequests : PostOrder(1, u, req)
    \/ \E u \in AllUsers, req \in HistoryRequests : ConnectionError(1, u, req)
    \/ \E u \in AllUsers, req \in HistoryRequests : BeginError(1, u, req)
    \/ HandlerSteps
    \/ \E u \in AllUsers : Register(u)

\* a handler that has been called runs on: each of its awaits is answered,
\* with a result or with an error
SpecRelease == Init /\ [][NextRelease]_vars /\ WF_vars(HandlerSteps)

(* ====================================================================== *)
(*                               Properties                               *)
(* ====================================================================== *)
\* quantity a request's items ask of book b, all lines together
QtyOrdered(items, b) ==
    SumOver({k \in 1..Len(items) : items[k].book_id = b},
            [k \in 1..Len(items) |-> items[k].quantity])

\* the stored order items of order o
ItemsOf(o) == {i \in order_items : i.order_id = o.id}

\* C1: the commit of an order changes every book's stock by exactly the
\* total quantity the request orders of that book when the mode is buy, and
\* leaves it as it was when the mode is rent or gift.
C1_StockAfterCommit ==
    [][\A t \in Conns :
          (txn[t].pc = "commit" /\ txn'[t].pc = "respond") =>
              \A b \in Books :
                  books'[b].stock =
                      books[b].stock
                      - (IF txn[t].req.mode = "buy"
                         THEN QtyOrdered(txn[t].req.items, b) ELSE 0)]_vars

\* a buy order of two lines has been committed and book 1 is sold out
C1_Witness ==
    \E t \in Conns :
        /\ txn[t].pc = "respond"
        /\ txn[t].req.mode = "buy"
        /\ Len(txn[t].req.items) = 2
        /\ books[1].stock = 0

\* C2: a buy item that asks more than the stock the transaction sees never
\* reaches the decrement; the request is answered 400 "insufficient stock"
\* naming that item's book, and neither the rollback nor any earlier step of
\* the request changes books, orders, order items or gifts.
C2_InsufficientStockRollsBack ==
    [][\A t \in Conns :
          LET T == txn[t]
              item == T.req.items[T.idx]
              seen == IF item.book_id \in DOMAIN T.wrote
                      THEN T.wrote[item.book_id]
                      ELSE IF DOMAIN T.snap.books = {}
                           THEN books[item.book_id].stock
                           ELSE T.snap.books[item.book_id].stock
          IN  /\ ( /\ T.pc = "select" /\ T.req.mode = "buy"
                   /\ item.book_id \in Books /\ item.quantity > 0
                   /\ seen < item.quantity
                   /\ txn'[t] # T )
                 => ( /\ txn'[t].pc = "failed"
                      /\ txn'[t].err \in
                           {[message |-> "InsufficientStock",
                             book |-> item.book_id],
                            [message |-> "DbError", book |-> NULL]} )
              /\ ( /\ T.pc = "failed" /\ T.err.message = "InsufficientStock"
                   /\ txn'[t] # T )
                 => ( /\ resp'[t].status = 400
                      /\ resp'[t].message = "InsufficientStock"
                      /\ resp'[t].book = item.book_id
                      /\ txn'[t].pc = "idle"
                      /\ db' = db )
              /\ (T.pc \notin {"idle", "commit"} /\ txn'[t] # T) => db' = db
      ]_vars

\* book 2 was short after book 1 had been decremented in the same request
C2_Witness ==
    \E t \in Conns :
        /\ resp[t].status = 400
        /\ resp[t].message = "InsufficientStock"
        /\ resp[t].book = 2
        /\ resp[t].rolledBack
        /\ books[1].stock = InitStock[1]

\* C3: committed stock is never negative, under any interleaving of
\* concurrent buy orders.
C3_StockNeverNegative == \A b \in Books : books[b].stock >= 0

\* C4: the tables never hold a partial order: every order has all its
\* items, every item and gift belongs to a stored order, a gift order has one
\* gift row per item and no other order has any, and every stock decrement
\* belongs to a stored buy order.
C4_NoPartialOrder ==
    /\ \A o \in orders :
          /\ Cardinality(ItemsOf(o)) = o.n_items
          /\ Cardinality({g \in gifts : g.order_id = o.id})
                 = IF o.mode = "gift" THEN o.n_items ELSE 0
    /\ \A i \in order_items : \E o \in orders : o.id = i.order_id
    /\ \A g \in gifts : \E o \in orders : o.id = g.order_id
    /\ \A b \in Books :
          books[b].stock =
              InitStock[b]
              - SumOver({i \in order_items :
                            /\ i.book_id = b
                            /\ \E o \in orders :
                                   o.id = i.order_id /\ o.mode = "buy"},
                        [i \in order_items |-> i.quantity])

\* a creation that had written its order row and an item failed and was
\* rolled back while a gift order with both its gifts is stored
C4_Witness ==
    /\ \E t \in Conns : resp[t].status = 400 /\ resp[t].message = "DbError"
    /\ \A t \in Conns : txn[t].pc = "idle"
    /\ nextOrderId > Cardinality(orders) + 1
    /\ \E o \in orders : o.mode = "gift" /\ o.n_items = 2

\* C9: a rent order charges every unit 35 per cent of the catalog price
\* when the effective duration is 30 days (also when rental_duration is
\* missing or not positive) and 55 per cent otherwise; the stored unit price
\* and the stored total are these amounts at two decimals, the total being
\* the sum of charged price times quantity with no shipping or COD fee.
C9_RentPricing ==
    \A o \in orders :
        o.mode = "rent" =>
            LET days == IF o.rental_duration = NULL \/ o.rental_duration <= 0
                        THEN 30 ELSE o.rental_duration
                pct == IF days = 30 THEN 35 ELSE 55
                exact == SumOver(ItemsOf(o),
                                 [i \in ItemsOf(o) |->
                                     books[i.book_id].price * pct * i.quantity])
            IN  /\ \A i \in ItemsOf(o) :
                      LET d == 100 * i.price - books[i.book_id].price * pct
                      IN  -50 <= d /\ d <= 50
                /\ -50 <= 100 * o.total - exact
                /\ 100 * o.total - exact <= 50
                /\ o.shipping_fee = 0
                /\ o.cod_fee = 0

\* a two-line rent order with a negative duration, paid on delivery, is
\* stored at the 35 per cent price
C9_Witness ==
    \E o \in orders :
        /\ o.mode = "rent"
        /\ o.n_items = 2
        /\ o.rental_duration = -3
        /\ o.payment_method = "cod"
        /\ \E i \in ItemsOf(o) : i.book_id = 1 /\ i.price = 3500

\* C10: a buy order's total is the sum of catalog price times quantity plus
\* one shipping fee (30 standard, 70 express, 120 priority, 30 for a missing
\* or unknown speed) plus 10 when the payment method is cod, each added once
\* whatever the number of lines; a rent or gift order carries neither fee.
C10_BuyTotal ==
    \A o \in orders :
        LET goods == SumOver(ItemsOf(o),
                             [i \in ItemsOf(o) |->
                                 books[i.book_id].price * i.quantity])
            fee == IF o.shipping_speed = "express" THEN 7000
                   ELSE IF o.shipping_speed = "priority" THEN 12000
                   ELSE 3000
            cod == IF o.payment_method = "cod" THEN 1000 ELSE 0
        IN  IF o.mode = "buy"
            THEN /\ o.total = goods + fee + cod
                 /\ o.shipping_fee = fee
                 /\ o.cod_fee = cod
            ELSE /\ o.shipping_fee = 0
                 /\ o.cod_fee = 0
                 /\ o.total <= goods

\* a two-line buy order with an unknown shipping speed, paid on delivery
C10_Witness ==
    \E o \in orders :
        /\ o.mode = "buy"
        /\ o.n_items = 2
        /\ o.shipping_speed = "overnight"
        /\ o.payment_method = "cod"
        /\ o.total = o.shipping_fee + o.cod_fee
                     + SumOver(ItemsOf(o),
                               [i \in ItemsOf(o) |-> i.price * i.quantity])

\* a completed-payment order of user u that contains book b
CompletedOrder(u, b) ==
    \E o \in orders :
        /\ o.user_id = u
        /\ o.payment_status = "completed"
        /\ \E i \in order_items : i.order_id = o.id /\ i.book_id = b

\* C5: once a user has had a completed buy order containing a book, no
\* later read of that book by that user is denied, whatever orders, rentals,
\* payment verifications or webhook events came afterwards.
C5_BuyAccessPermanent ==
    \A p \in everBought :
        \A r \in ReadOutcomes(p[1], p[2]) : r.status # 403

\* C6: access through a rent order is granted only while rental_end is
\* strictly in the future, and once rental_end has passed the read is denied
\* with 403 "rental expired".
C6_RentWindow ==
    \A u \in users, b \in Books :
        \A r \in ReadOutcomes(u, b) :
            (r.source = "order" /\ r.mode = "rent") =>
                /\ r.status = 200 => now < r.rental_end
                /\ now > r.rental_end =>
                       r.status = 403 /\ r.message = "rental expired"

C8_NotFoundOnlyWhenGranted ==
    \A u \in users, b \in Books :
        \A r \in ReadOutcomes(u, b) :
            r.status = 404 =>
                /\ r.source # "none"
                /\ ~(r.mode = "rent" /\ now > r.rental_end)

\* C11: every rent order ends at its creation time plus the requested
\* number of days, thirty when rental_duration is missing or not positive,
\* and its items are priced at the tier of that same number of days.
C11_RentalEnd ==
    \A o \in orders :
        o.mode = "rent" =>
            LET days == IF o.rental_duration = NULL \/ o.rental_duration <= 0
                        THEN 30 ELSE o.rental_duration
                pct == IF days = 30 THEN 35 ELSE 55
            IN  /\ o.rental_end = o.created_at + days
                /\ \A i \in ItemsOf(o) :
                      LET d == 100 * i.price - books[i.book_id].price * pct
                      IN  -50 <= d /\ d <= 50

\* a rent order without a usable duration, created after time had passed,
\* ends thirty days later
C11_Witness ==
    \E o \in orders :
        /\ o.mode = "rent"
        /\ o.rental_duration = -3
        /\ o.created_at > 0
        /\ o.rental_end = o.created_at + 30
        /\ \E p \in orders : p.mode = "rent" /\ p.rental_duration = 1
                             /\ p.rental_end = 1

\* C12: an order enters the orders table with status 'Pending' when its
\* mode is buy, 'Active' when rent and 'Delivered' when gift, and the order
\* returned with 201 by the creation request carries that stored status.
C12_InitialStatus ==
    [][\A t \in Conns :
          LET expected(o) == IF o.mode = "buy" THEN "Pending"
                             ELSE IF o.mode = "rent" THEN "Active"
                             ELSE "Delivered"
          IN  /\ \A o \in orders' :
                    (\A p \in orders : p.id # o.id) => o.status = expected(o)
              /\ (txn[t].pc = "respond" /\ resp'[t].status = 201) =>
                    \E o \in orders :
                        /\ o.id = resp'[t].orderId
                        /\ o.status = expected(o)
                        /\ resp'[t].orderStatus = o.status]_vars

\* a rent order created after time had passed was answered as 'Active'
C12_Witness ==
    \E o \in orders :
        /\ o.id = resp[1].orderId
        /\ resp[1].status = 201
        /\ o.mode = "rent"
        /\ o.created_at > 0
        /\ resp[1].orderStatus = "Active"

C19_ErrorClasses ==
    \A t \in Conns :
        /\ resp[t].message \in {"InvalidItem", "BookNotFound",
                                "InsufficientStock"}
              => resp[t].status = 400
        /\ resp[t].status = 500 => resp[t].message = "ServerError"
        /\ resp[t].message # "DbError"

\* C20: every stored order has rental_end exactly when its mode is rent,
\* delivery_eta exactly when its mode is buy and gift_email exactly when its
\* mode is gift, whatever optional fields the request carried.
C20_FieldsByMode ==
    \A o \in orders :
        /\ o.rental_end # NULL <=> o.mode = "rent"
        /\ o.delivery_eta # NULL <=> o.mode = "buy"
        /\ o.gift_email # NULL <=> o.mode = "gift"

\* C13: after any sequence of order creations and payment verifications
\* every gift order has exactly one gift row per order item, no two gift
\* rows share a claim token, and no buy or rent order has a gift row.
C13_OneGiftPerItem ==
    /\ \A o \in orders :
          Cardinality({g \in gifts : g.order_id = o.id})
              = IF o.mode = "gift" THEN Cardinality(ItemsOf(o)) ELSE 0
    /\ \A g, h \in gifts : g.id # h.id => g.claim_token # h.claim_token

C15_StoredPricesKept ==
    [][/\ \A o \in orders :
             \E o2 \in orders' :
                /\ o2.id = o.id
                /\ o2.total = o.total
                /\ o2.shipping_fee = o.shipping_fee
                /\ o2.cod_fee = o.cod_fee
                /\ {i \in order_items' : i.order_id = o.id} = ItemsOf(o)
       /\ (lastCall' # lastCall /\ lastCall'.kind \in {"list", "get"})
             => \A o \in lastCall'.orders :
                   \E s \in orders :
                      /\ s.id = o.id
                      /\ s.total = o.total
                      /\ {i \in lastCall'.items : i.order_id = o.id}
                            = ItemsOf(s)
      ]_vars

\* a purchase of book 1 is retrieved after the administrator changed the
\* book's catalog price: the item carries the price of the creation
C15_Witness ==
    /\ lastCall.kind = "get"
    /\ lastCall.status = 200
    /\ \E o \in lastCall.orders, i \in lastCall.items :
          /\ o.mode = "buy"
          /\ i.order_id = o.id
          /\ i.price = InitPrice[i.book_id]
          /\ books[i.book_id].price # InitPrice[i.book_id]

\* C16: the answers of GET /api/orders and GET /api/orders/:id hold only
\* orders whose user_id is the caller and only item rows of those orders;
\* the answer to a request for an order of another user is 404 and holds no
\* order and no item.
C16_OwnOrdersOnly ==
    lastCall.kind \in {"list", "get"}
        => /\ \A o \in lastCall.orders : o.user_id = lastCall.user
           /\ \A i \in lastCall.items :
                 \E o \in lastCall.orders : i.order_id = o.id
           /\ (lastCall.kind = "get"
               /\ \E o \in orders : /\ o.id = lastCall.id
                                    /\ o.user_id # lastCall.user)
                 => /\ lastCall.status = 404
                    /\ lastCall.orders = {}
                    /\ lastCall.items = {}

\* a user lists their orders while an earlier order of the other user, with
\* its items, is in the table: the list holds the later order only
C16_Witness ==
    /\ lastCall.kind = "list"
    /\ \E o \in lastCall.orders, p \in orders :
          /\ p.user_id # lastCall.user
          /\ p.id < o.id
          /\ ItemsOf(p) # {}
          /\ \A q \in lastCall.orders : q.id # p.id

\* C18: the background job is idempotent.  In every reachable state a second
\* run at the same time leaves the orders table as the first run left it,
\* and over two successive runs, the second at the same or a later time, no
\* order gets back a status it has left.  Every step that changes the status
\* of a stored order moves it from 'Pending' to 'Delivered' once its
\* delivery date has passed, or moves a rental to 'Completed' once its due
\* date has passed.
C18_TickIdempotent ==
    /\ [](\A at2 \in now..MaxTime :
             LET O1 == TickOrders(orders, now)
                 O2 == TickOrders(O1, at2)
             IN  /\ TickOrders(O1, now) = O1
                 /\ \A o \in orders, o1 \in O1, o2 \in O2 :
                       (o1.id = o.id /\ o2.id = o.id /\ o2.status = o.status)
                           => o1.status = o.status)
    /\ [][\A o \in orders, o2 \in orders' :
             (o2.id = o.id /\ o2.status # o.status)
                 => /\ o2 = [o EXCEPT !.status = o2.status]
                    /\ \/ /\ o.status = "Pending"
                          /\ o2.status = "Delivered"
                          /\ o.delivery_eta # NULL /\ o.delivery_eta <= now
                       \/ /\ o.mode = "rent"
                          /\ o2.status = "Completed"
                          /\ o.rental_end # NULL /\ o.rental_end <= now
         ]_vars

\* the job has delivered a purchase and completed a rental, and another run
\* now changes nothing
C18_Witness ==
    /\ \E o \in orders : o.mode = "buy" /\ o.status = "Delivered"
    /\ \E o \in orders : o.mode = "rent" /\ o.status = "Completed"
    /\ TickOrders(orders, now) = orders

\* C21: the status the read endpoints return.  Every answer of GET
\* /api/orders and GET /api/orders/:id carries, for each order, the status
\* derived from the stored row at the time of the request: 'Delivered' for a
\* gift; for a rental with a due date, 'Completed' once the date has passed
\* and 'Active' before it unless the stored status is 'Active' or
\* 'Completed'; 'Delivered' for a purchase stored as 'Pending' whose
\* delivery date has passed; the stored status otherwise.  The request
\* leaves the orders table as it was.
C21_DerivedStatus ==
    [][(lastCall' # lastCall /\ lastCall'.kind \in {"list", "get"})
          => /\ orders' = orders
             /\ \A o \in lastCall'.orders :
                   \E s \in orders :
                      /\ s.id = o.id
                      /\ o = [s EXCEPT !.status = o.status]
                      /\ o.status =
                           CASE s.mode = "gift" -> "Delivered"
                             [] s.mode = "rent" /\ s.rental_end # NULL
                                  /\ s.rental_end <= now -> "Completed"
                             [] s.mode = "rent" /\ s.rental_end # NULL
                                  /\ s.rental_end > now
                                  /\ s.status \notin {"Active", "Completed"}
                                  -> "Active"
                             [] s.mode = "buy" /\ s.status = "Pending"
                                  /\ s.delivery_eta # NULL
                                  /\ s.delivery_eta <= now -> "Delivered"
                             [] OTHER -> s.status
      ]_vars

\* a rental stored as 'Active' is retrieved after its due date: the answer
\* says 'Completed' and the stored row still says 'Active'
C21_Witness ==
    /\ lastCall.kind = "get"
    /\ lastCall.status = 200
    /\ \E o \in lastCall.orders, s \in orders :
          /\ s.id = o.id
          /\ s.mode = "rent"
          /\ s.status = "Active"
          /\ o.status = "Completed"

\* C22: the background job reconciles every due order.  An order stored as
\* 'Pending' whose delivery date has passed is eventually stored as
\* 'Delivered', and a rental whose due date has passed is eventually stored
\* as 'Completed', whatever runs of the job fail in between.
C22_EventuallyReconciled ==
    \A id \in 1..MaxOrders :
        /\ (\E o \in orders : /\ o.id = id /\ o.mode = "buy"
                              /\ o.status = "Pending"
                              /\ o.delivery_eta # NULL
                              /\ o.delivery_eta <= now)
              ~> (\E o \in orders : o.id = id /\ o.status = "Delivered")
        /\ (\E o \in orders : /\ o.id = id /\ o.mode = "rent"
                              /\ o.rental_end # NULL
                              /\ o.rental_end <= now)
              ~> (\E o \in orders : o.id = id /\ o.status = "Completed")

\* the latest failed run left a due purchase 'Pending' and a due rental
\* not completed, and runs after it have delivered the one and completed
\* the other
C22_Witness ==
    /\ lastCall.kind = "tickError"
    /\ \E p \in lastCall.orders, o \in orders :
          /\ p.id = o.id /\ p.mode = "buy" /\ p.status = "Pending"
          /\ p.delivery_eta <= now
          /\ o.status = "Delivered"
    /\ \E p \in lastCall.orders, o \in orders :
          /\ p.id = o.id /\ p.mode = "rent" /\ p.status = "Active"
          /\ p.rental_end <= now
          /\ o.status = "Completed"

\* C23: every connection an order-creation request has taken from the pool
\* is eventually released: whenever a connection is out of the pool, a later
\* state has it back in the pool.
C23_ConnectionReleased ==
    \A t \in Conns : (txn[t].pc # "idle") ~> (txn[t].pc = "idle")

\* C24: the entitlement checks decide alike.  For every account and every
\* book whose content has been uploaded, the book read endpoint answers 200
\* exactly when the secure PDF endpoint answers 200 and exactly when
\* checkBookAccess returns hasAccess = true.
C24_OneResolver ==
    \A u \in users, b \in Books :
        books[b].content_url
            => LET read == {r.status = 200 : r \in ReadOutcomes(u, b)}
                   pdf == {st = 200 : st \in SecurePdf(u, b, now)}
               IN  /\ read = pdf
                   /\ read = checkBookAccess(u, b, now)

\* C25: every stored order adds up.  The stored total of an order equals
\* the sum over its stored items of price times quantity, plus its stored
\* shipping fee and COD fee, all in cents (two decimals).
C25_TotalAddsUp ==
    \A o \in orders :
        o.total = SumOver(ItemsOf(o),
                          [i \in ItemsOf(o) |-> i.price * i.quantity])
                  + o.shipping_fee + o.cod_fee

\* C26: a completed payment stays completed.  No step takes an order whose
\* payment_status is 'completed' to another payment_status.
C26_CompletedStays ==
    [][\A o \in orders :
          o.payment_status = "completed"
              => \E o2 \in orders' :
                    o2.id = o.id /\ o2.payment_status = "completed"
      ]_vars

\* C27: the stored status never regresses.  No step takes a purchase that
\* is stored as 'Delivered', or a rental that is stored as 'Completed', to
\* the status 'Pending' or 'Active'.
C27_StatusNeverRegresses ==
    [][\A o \in orders, o2 \in orders' :
          (/\ o2.id = o.id
           /\ \/ o.mode = "buy" /\ o.status = "Delivered"
              \/ o.mode = "rent" /\ o.status = "Completed")
              => o2.status \notin {"Pending", "Active"}
      ]_vars

\* C28: a gift gives access only once it is paid.  Whenever GET /:bookId/read
\* answers 200 through a gift, some gift row of the book for the reader
\* belongs to an order whose payment_status is 'completed' at that time.
C28_GiftAccessNeedsPayment ==
    [][(/\ lastRead' # lastRead
        /\ lastRead'.status = 200
        /\ lastRead'.source = "gift")
          => \E g \in GiftRows(lastRead'.user, lastRead'.book), o \in orders :
                o.id = g.order_id /\ o.payment_status = "completed"
      ]_vars

\* C29: only the owner's verification completes a payment.  Every step
\* that takes an order's payment_status to 'completed' is a verify request
\* of the order's owner for the order's gateway order, with a matching
\* signature and a payment the gateway reports as captured; and a verify
\* request of one user, whatever it carries, leaves every order of every
\* other user as it was.
C29_OwnerVerifiedOnly ==
    [][/\ \A o \in orders, o2 \in orders' :
             (/\ o2.id = o.id
              /\ o2.payment_status = "completed"
              /\ o.payment_status # "completed")
                 => /\ o.razorpay_order_id # NULL
                    /\ VerifyPayment(o.user_id, o.razorpay_order_id, TRUE,
                                     "captured")
       /\ \A u \in AllUsers, rid \in 1..MaxOrders, sigOk \in BOOLEAN,
             gwStatus \in {"captured", "failed"} :
             VerifyPayment(u, rid, sigOk, gwStatus)
                 => \A o \in orders : o.user_id # u => o \in orders'
      ]_vars

\* the payment of one user's order is completed while the other user's
\* order, which has a gateway order too, is still pending
C29_Witness ==
    \E o \in orders, p \in orders :
        /\ o.payment_status = "completed"
        /\ o.razorpay_payment_id = o.razorpay_order_id
        /\ p.user_id # o.user_id
        /\ p.razorpay_order_id # NULL
        /\ p.payment_status = "pending"

\* C30: a gift's recipient is never taken over.  No step changes the
\* recipient_user_id of a gift row that has one.
C30_RecipientKept ==
    [][\A g \in gifts, g2 \in gifts' :
          (g2.id = g.id /\ g.recipient_user_id # NULL)
              => g2.recipient_user_id = g.recipient_user_id
      ]_vars

\* the latest request claimed a gift by its id while an older gift row had
\* another account as its recipient, and that row still has it
C30_Witness ==
    /\ lastCall.kind = "claimOne"
    /\ lastCall.status = 200
    /\ lastCall.claimed = 1
    /\ \E g \in gifts :
          /\ g.id < lastCall.id
          /\ g.recipient_user_id # NULL
          /\ g.recipient_user_id # lastCall.user

====
